---- MODULE Spec2Model ----
(***************************************************************************)
(* Model of the TERI robot's temporal event memory (temporal_memory.py):   *)
(* the TemporalEventMemory store, its natural-language time parsing and    *)
(* its JSON persistence.                                                   *)
(*                                                                         *)
(* Time is an integer number of clock ticks.  A Python datetime has        *)
(* microsecond resolution; the model keeps TicksPerSecond ticks in a       *)
(* second, which is enough to tell "same second" from "same instant".      *)
(* Texts are strings; substring tests and the regular expressions of the   *)
(* source are evaluated character by character.                            *)
(***************************************************************************)
EXTENDS Integers, Sequences, FiniteSets, TLC

(***************************************************************************)
(* Bounds of the model.                                                    *)
(***************************************************************************)
TicksPerSecond == 2
MaxTicks == 2
MaxEvents == 2
MaxOps == 3
MaxWakes == 2
MaxCaptures == 11
MaxCommands == 2
MaxMonitors == 3

(***************************************************************************)
(* Calendar arithmetic of datetime / timedelta.                            *)
(***************************************************************************)
Second == TicksPerSecond
Minute == 60 * Second
Hour == 60 * Minute
Day == 24 * Hour

\* The clock when the process first starts: day 100, 10:00:00.
StartTime == 100 * Day + 10 * Hour
\* When the events that earlier runs of the process left in the file were made.
EarlierTime == StartTime - 50 * Day

DateOf(t) == t \div Day

\* datetime.replace(hour=h, minute=m, second=0, microsecond=0) is defined
\* only for 0 <= h <= 23 and 0 <= m <= 59; otherwise it raises ValueError.
ReplaceOk(h, m) == h \in 0..23 /\ m \in 0..59
Replace(t, h, m) == DateOf(t) * Day + h * Hour + m * Minute

\* datetime.isoformat(): "YYYY-MM-DDTHH:MM:SS.ffffff", as its components.
isoformat(t) ==
    << t \div Day, (t % Day) \div Hour, (t % Hour) \div Minute,
       (t % Minute) \div Second, t % Second >>

\* datetime.fromisoformat()
fromisoformat(s) ==
    s[1] * Day + s[2] * Hour + s[3] * Minute + s[4] * Second + s[5]

\* strftime('%Y%m%d_%H%M%S'): the timestamp cut to whole seconds.
strftime_seconds(t) == t \div Second

(***************************************************************************)
(* Strings: str.lower(), the "in" substring test, and the character        *)
(* classes of the re module.                                               *)
(***************************************************************************)
CharAt(s, i) == IF i \in 1..Len(s) THEN SubSeq(s, i, i) ELSE ""

Upper == << "A","B","C","D","E","F","G","H","I","J","K","L","M",
            "N","O","P","Q","R","S","T","U","V","W","X","Y","Z" >>
LowerLetters == << "a","b","c","d","e","f","g","h","i","j","k","l","m",
                   "n","o","p","q","r","s","t","u","v","w","x","y","z" >>
Digits == << "0","1","2","3","4","5","6","7","8","9" >>

Range(f) == { f[i] : i \in DOMAIN f }

LowerChar(c) ==
    IF c \in Range(Upper)
    THEN LowerLetters[CHOOSE i \in 1..26 : Upper[i] = c]
    ELSE c

\* the first n characters of s, lowercased
RECURSIVE LowerPrefix(_, _)
LowerPrefix(s, n) ==
    IF n = 0 THEN ""
    ELSE LowerPrefix(s, n - 1) \o LowerChar(CharAt(s, n))

lower(s) == LowerPrefix(s, Len(s))

\* Python: k in s
Contains(s, k) ==
    \E i \in 1..(Len(s) - Len(k) + 1) : SubSeq(s, i, i + Len(k) - 1) = k

\* Python: any(k in s for k in ks)
ContainsAny(s, ks) == \E j \in 1..Len(ks) : Contains(s, ks[j])

StartsAt(s, i, k) == i >= 1 /\ i + Len(k) - 1 <= Len(s) /\ SubSeq(s, i, i + Len(k) - 1) = k

IsDigit(c) == c \in Range(Digits)
IsSpace(c) == c \in {" ", "\t", "\n"}
IsWord(c) == c \in Range(Digits) \cup Range(LowerLetters) \cup Range(Upper) \cup {"_"}

\* \b at the position just before character i
Boundary(s, i) == IsWord(CharAt(s, i - 1)) # IsWord(CharAt(s, i))

\* Length of the longest run of characters from i on that satisfy a class.
RECURSIVE DigitRun(_, _)
DigitRun(s, i) == IF IsDigit(CharAt(s, i)) THEN 1 + DigitRun(s, i + 1) ELSE 0
RECURSIVE SpaceRun(_, _)
SpaceRun(s, i) == IF IsSpace(CharAt(s, i)) THEN 1 + SpaceRun(s, i + 1) ELSE 0
RECURSIVE WordRun(_, _)
WordRun(s, i) == IF IsWord(CharAt(s, i)) THEN 1 + WordRun(s, i + 1) ELSE 0

DigitVal(c) == (CHOOSE i \in 1..10 : Digits[i] = c) - 1

\* int() of a string of digits
RECURSIVE IntPrefix(_, _)
IntPrefix(s, n) ==
    IF n = 0 THEN 0
    ELSE 10 * IntPrefix(s, n - 1) + DigitVal(CharAt(s, n))

int(s) == IntPrefix(s, Len(s))

\* str.strip(): what is left between the first and the last character that
\* is not white space
strip(s) ==
    LET solid == { i \in 1..Len(s) : ~IsSpace(CharAt(s, i)) }
    IN  IF solid = {} THEN ""
        ELSE SubSeq(s, CHOOSE i \in solid : \A j \in solid : i <= j,
                       CHOOSE i \in solid : \A j \in solid : j <= i)

Min(S) == CHOOSE x \in S : \A y \in S : x <= y

(***************************************************************************)
(* The regular expressions of time_patterns.  Each XxxAt(s, i) says        *)
(* whether the pattern matches starting at character i; re.search returns  *)
(* the leftmost match, with greedy quantifiers.                            *)
(***************************************************************************)
NoPos == 0
Positions(s) == 1..Len(s)
Leftmost(S) == IF S = {} THEN NoPos ELSE Min(S)

AmPmAt(s, i) ==
    IF StartsAt(s, i, "am") /\ Boundary(s, i + 2) THEN "am"
    ELSE IF StartsAt(s, i, "pm") /\ Boundary(s, i + 2) THEN "pm"
    ELSE ""

\* r'\b(\d{1,2}):(\d{2})\s*(am|pm)?\b'
ClockDigits(s, i) ==
    IF IsDigit(CharAt(s, i)) /\ IsDigit(CharAt(s, i + 1)) /\ CharAt(s, i + 2) = ":" THEN 2
    ELSE IF IsDigit(CharAt(s, i)) /\ CharAt(s, i + 1) = ":" THEN 1
    ELSE 0

ClockTimeAt(s, i) ==
    LET nd == ClockDigits(s, i)
        p == i + nd + 1
        q == p + 2
        w == SpaceRun(s, q)
    IN  /\ Boundary(s, i)
        /\ nd > 0
        /\ IsDigit(CharAt(s, p)) /\ IsDigit(CharAt(s, p + 1))
        /\ \/ AmPmAt(s, q + w) # ""
           \/ \E k \in 0..w : Boundary(s, q + k)

ClockTimeMatch(s) ==
    LET i == Leftmost({ j \in Positions(s) : ClockTimeAt(s, j) })
        nd == ClockDigits(s, i)
        q == i + nd + 3
    IN  IF i = NoPos THEN [ok |-> FALSE, g1 |-> "", g2 |-> "", g3 |-> ""]
        ELSE [ok |-> TRUE,
              g1 |-> SubSeq(s, i, i + nd - 1),
              g2 |-> SubSeq(s, i + nd + 1, i + nd + 2),
              g3 |-> AmPmAt(s, q + SpaceRun(s, q))]

\* r'\bat\s+(\d{1,2})\s*(am|pm)\b'
HourAmPmAt(s, i) ==
    LET w1 == SpaceRun(s, i + 2)
        p == i + 2 + w1
        nd == DigitRun(s, p)
        q == p + nd
    IN  /\ Boundary(s, i)
        /\ StartsAt(s, i, "at")
        /\ w1 >= 1
        /\ nd \in {1, 2}
        /\ AmPmAt(s, q + SpaceRun(s, q)) # ""

HourAmPmMatch(s) ==
    LET i == Leftmost({ j \in Positions(s) : HourAmPmAt(s, j) })
        p == i + 2 + SpaceRun(s, i + 2)
        nd == DigitRun(s, p)
        q == p + nd
    IN  IF i = NoPos THEN [ok |-> FALSE, g1 |-> "", g2 |-> ""]
        ELSE [ok |-> TRUE,
              g1 |-> SubSeq(s, p, p + nd - 1),
              g2 |-> AmPmAt(s, q + SpaceRun(s, q))]

\* (minutes?|hours?|days?)\b at position u: the unit matched, or ""
UnitWords == << "minute", "hour", "day" >>
UnitAt(s, u) ==
    LET hits == { k \in 1..Len(UnitWords) : StartsAt(s, u, UnitWords[k]) }
    IN  IF hits = {} THEN ""
        ELSE LET base == UnitWords[CHOOSE k \in hits : TRUE]
                 e == u + Len(base)
             IN  IF CharAt(s, e) = "s" /\ Boundary(s, e + 1) THEN base \o "s"
                 ELSE IF Boundary(s, e) THEN base
                 ELSE ""

\* r'\bin\s+(\d+)\s+(minutes?|hours?|days?)\b'
RelativeAt(s, i) ==
    LET w1 == SpaceRun(s, i + 2)
        p == i + 2 + w1
        nd == DigitRun(s, p)
        w2 == SpaceRun(s, p + nd)
    IN  /\ Boundary(s, i)
        /\ StartsAt(s, i, "in")
        /\ w1 >= 1
        /\ nd >= 1
        /\ w2 >= 1
        /\ UnitAt(s, p + nd + w2) # ""

RelativeMatch(s) ==
    LET i == Leftmost({ j \in Positions(s) : RelativeAt(s, j) })
        p == i + 2 + SpaceRun(s, i + 2)
        nd == DigitRun(s, p)
    IN  IF i = NoPos THEN [ok |-> FALSE, g1 |-> "", g2 |-> ""]
        ELSE [ok |-> TRUE,
              g1 |-> SubSeq(s, p, p + nd - 1),
              g2 |-> UnitAt(s, p + nd + SpaceRun(s, p + nd))]

\* r'\b(morning|afternoon|evening|night)\b'
DayParts == << "morning", "afternoon", "evening", "night" >>
DayPartAt(s, i) ==
    LET hits == { k \in 1..Len(DayParts) :
                    StartsAt(s, i, DayParts[k]) /\ Boundary(s, i + Len(DayParts[k])) }
    IN  IF Boundary(s, i) /\ hits # {} THEN DayParts[CHOOSE k \in hits : TRUE] ELSE ""

DayPartMatch(s) ==
    LET i == Leftmost({ j \in Positions(s) : DayPartAt(s, j) # "" })
    IN  IF i = NoPos THEN [ok |-> FALSE, g1 |-> ""]
        ELSE [ok |-> TRUE, g1 |-> DayPartAt(s, i)]

(***************************************************************************)
(* The parsers the patterns are mapped to.  A clock time is <<hour,        *)
(* minute>>; a timedelta is a number of ticks.                             *)
(***************************************************************************)
AmPmHour(hour, ampm) ==
    IF ampm = "pm" /\ hour # 12 THEN hour + 12
    ELSE IF ampm = "am" /\ hour = 12 THEN 0
    ELSE hour

parse_time(m) == << AmPmHour(int(m.g1), m.g3), int(m.g2) >>

parse_hour_ampm(m) == << AmPmHour(int(m.g1), m.g2), 0 >>

parse_relative_time(m) ==
    LET amount == int(m.g1)
    IN  IF Contains(m.g2, "minute") THEN amount * Minute
        ELSE IF Contains(m.g2, "hour") THEN amount * Hour
        ELSE IF Contains(m.g2, "day") THEN amount * Day
        ELSE 0

parse_time_of_day(m) ==
    CASE m.g1 = "morning" -> << 9, 0 >>
      [] m.g1 = "afternoon" -> << 14, 0 >>
      [] m.g1 = "evening" -> << 18, 0 >>
      [] m.g1 = "night" -> << 20, 0 >>
      [] OTHER -> << 12, 0 >>

\* The result of a computation that may raise: the value, or raised = TRUE.
Value(v) == [raised |-> FALSE, value |-> v]
Raised == [raised |-> TRUE, value |-> 0]

ReplaceTime(t, hm) ==
    IF ReplaceOk(hm[1], hm[2]) THEN Value(Replace(t, hm[1], hm[2])) ELSE Raised

\* The patterns are tried in the order of the time_patterns dict; the first
\* that matches decides and the loop breaks.  What the match says about the
\* time depends on the text alone: a clock time, an offset, or nothing.
time_of_text(text) ==
    LET text_lower == lower(text)
        m1 == ClockTimeMatch(text_lower)
        m2 == HourAmPmMatch(text_lower)
        m3 == RelativeMatch(text_lower)
        m4 == DayPartMatch(text_lower)
    IN  IF m1.ok THEN [kind |-> "absolute", hm |-> parse_time(m1), delta |-> 0]
        ELSE IF m2.ok THEN [kind |-> "absolute", hm |-> parse_hour_ampm(m2), delta |-> 0]
        ELSE IF m3.ok THEN [kind |-> "relative", hm |-> << 0, 0 >>, delta |-> parse_relative_time(m3)]
        ELSE IF m4.ok THEN [kind |-> "absolute", hm |-> parse_time_of_day(m4), delta |-> 0]
        ELSE [kind |-> "none", hm |-> << 12, 0 >>, delta |-> 0]

\* The relative-date branch of _parse_enhanced_date the text takes.
day_of_text(text) ==
    LET text_lower == lower(text)
    IN  IF Contains(text_lower, "tomorrow") THEN "tomorrow"
        ELSE IF ContainsAny(text_lower, << "today", "tonight", "this afternoon", "this morning" >>)
             THEN "today"
        ELSE IF Contains(text_lower, "day after tomorrow") THEN "day after tomorrow"
        ELSE IF Contains(text_lower, "next week") THEN "next week"
        ELSE IF Contains(text_lower, "next month") THEN "next month"
        ELSE "dateparser"

(***************************************************************************)
(* The enums: a member is written by its name; .value and the lookup by    *)
(* value EventType(v) / Priority(v) are the conversions persistence uses.  *)
(***************************************************************************)
EventTypeNames == << "REMINDER", "APPOINTMENT", "TASK", "NOTE", "RECURRING" >>
EventTypeValues == << "reminder", "appointment", "task", "note", "recurring" >>
PriorityNames == << "LOW", "MEDIUM", "HIGH", "URGENT" >>
PriorityValues == << 1, 2, 3, 4 >>

EventTypeValue(e) == EventTypeValues[CHOOSE i \in 1..Len(EventTypeNames) : EventTypeNames[i] = e]
EventTypeOf(v) == EventTypeNames[CHOOSE i \in 1..Len(EventTypeValues) : EventTypeValues[i] = v]
PriorityValue(q) == PriorityValues[CHOOSE i \in 1..Len(PriorityNames) : PriorityNames[i] = q]
PriorityOf(v) == PriorityNames[CHOOSE i \in 1..Len(PriorityValues) : PriorityValues[i] = v]

(***************************************************************************)
(* Metadata extraction of save_event.                                      *)
(***************************************************************************)
\* type_keywords, in dict order
TypeOrder == << "REMINDER", "APPOINTMENT", "TASK", "NOTE", "RECURRING" >>
type_keywords ==
    << << "remind", "remember", "don't forget" >>,
       << "meeting", "appointment", "call", "visit" >>,
       << "task", "do", "complete", "finish", "work on" >>,
       << "note", "write down", "record" >>,
       << "every", "daily", "weekly", "monthly", "recurring" >> >>

determine_event_type(text) ==
    LET text_lower == lower(text)
        hits == { k \in 1..Len(TypeOrder) : ContainsAny(text_lower, type_keywords[k]) }
    IN  IF hits = {} THEN "REMINDER" ELSE TypeOrder[Min(hits)]

\* priority_keywords, in dict order
PriorityOrder == << "URGENT", "HIGH", "MEDIUM", "LOW" >>
priority_keywords ==
    << << "urgent", "asap", "immediately", "emergency", "critical" >>,
       << "important", "high priority", "soon", "quickly" >>,
       << "medium", "normal", "regular" >>,
       << "low", "sometime", "when possible", "eventually" >> >>

determine_priority(text) ==
    LET text_lower == lower(text)
        hits == { k \in 1..Len(PriorityOrder) : ContainsAny(text_lower, priority_keywords[k]) }
    IN  IF hits = {} THEN "MEDIUM" ELSE PriorityOrder[Min(hits)]

\* re.findall(r'#(\w+)', text)
Hashtags(text) ==
    { SubSeq(text, i + 1, i + WordRun(text, i + 1)) :
        i \in { j \in Positions(text) :
                  /\ CharAt(text, j) = "#"
                  /\ WordRun(text, j + 1) >= 1 } }

CategoryOrder == << "work", "personal", "health", "shopping", "travel" >>
category_keywords ==
    << << "work", "office", "meeting", "project", "deadline" >>,
       << "personal", "family", "friend", "home" >>,
       << "doctor", "dentist", "gym", "exercise", "medicine" >>,
       << "buy", "purchase", "store", "market", "shopping" >>,
       << "flight", "trip", "vacation", "travel", "hotel" >> >>

\* The tags as a set; list(set(tags)) puts them in an arbitrary order.
extract_tags(text) ==
    Hashtags(text) \cup
    { CategoryOrder[k] : k \in { j \in 1..Len(CategoryOrder) :
                                   ContainsAny(lower(text), category_keywords[j]) } }

Orderings(S) ==
    { q \in [1..Cardinality(S) -> S] : \A i, j \in 1..Cardinality(S) : q[i] = q[j] => i = j }

\* re.search(r'\b(?:at|in|@)\s+([^,.\n]+)', text, re.IGNORECASE), stripped
NotSep(c) == c # "" /\ c \notin {",", ".", "\n"}
RECURSIVE NotSepRun(_, _)
NotSepRun(s, i) == IF NotSep(CharAt(s, i)) THEN 1 + NotSepRun(s, i + 1) ELSE 0

PrepLen(s, i) ==
    IF StartsAt(lower(s), i, "at") \/ StartsAt(lower(s), i, "in") THEN 2
    ELSE IF StartsAt(s, i, "@") THEN 1
    ELSE 0

\* where the group starts for a match at i, or NoPos
LocationGroupAt(s, i) ==
    LET n == PrepLen(s, i)
        w == SpaceRun(s, i + n)
        ks == { k \in 1..w : NotSep(CharAt(s, i + n + k)) }
    IN  IF Boundary(s, i) /\ n > 0 /\ ks # {}
        THEN i + n + (CHOOSE k \in ks : \A k2 \in ks : k2 <= k)
        ELSE NoPos

extract_location(text) ==
    LET i == Leftmost({ j \in Positions(text) : LocationGroupAt(text, j) # NoPos })
        g == LocationGroupAt(text, i)
    IN  IF i = NoPos THEN ""
        ELSE strip(SubSeq(text, g, g + NotSepRun(text, g) - 1))

\* re.search(r'(\d+)\s*(minutes?|hours?|hrs?)', text.lower())
DurationUnits == << "minute", "hour", "hr" >>
DurationUnitAt(s, u) ==
    LET hits == { k \in 1..Len(DurationUnits) : StartsAt(s, u, DurationUnits[k]) }
    IN  IF hits = {} THEN ""
        ELSE LET base == DurationUnits[Min(hits)]
             IN  IF CharAt(s, u + Len(base)) = "s" THEN base \o "s" ELSE base

DurationAt(s, i) ==
    LET nd == DigitRun(s, i)
    IN  nd >= 1 /\ DurationUnitAt(s, i + nd + SpaceRun(s, i + nd)) # ""

extract_duration(text) ==
    LET s == lower(text)
        i == Leftmost({ j \in Positions(s) : DurationAt(s, j) })
        nd == DigitRun(s, i)
        amount == int(SubSeq(s, i, i + nd - 1))
        unit == DurationUnitAt(s, i + nd + SpaceRun(s, i + nd))
    IN  IF i = NoPos THEN 0
        ELSE amount * (IF Contains(unit, "hour") \/ Contains(unit, "hr") THEN 60 ELSE 1)

(***************************************************************************)
(* The texts the model saves, and what the parsers above make of each      *)
(* (computed once).  The operations below take a text as its entry t of    *)
(* TextTable: t.text is the text itself, the other fields what save_event  *)
(* extracts from it.                                                       *)
(***************************************************************************)
Texts ==
    { "remind me tomorrow at 3pm to call mom",
      "meeting at the office in 30 minutes",
      "appointment at 13 pm" }

TextEntry(t) ==
    [ text |-> t,
      day |-> day_of_text(t),
      time |-> time_of_text(t),
      event_type |-> determine_event_type(t),
      priority |-> determine_priority(t),
      tags |-> extract_tags(t),
      location |-> extract_location(t),
      duration |-> extract_duration(t) ]

TextTable == { TextEntry(t) : t \in Texts }

\* Texts that say when: relative days, clock times, day parts and offsets,
\* alone and together.
DateTexts ==
    { "call mom tomorrow",
      "call mom day after tomorrow",
      "dinner next week",
      "read today in the evening",
      "walk today in 2 hours",
      "lunch today at 12:30 in 2 hours",
      "gym today at 7 pm in the evening",
      "water the plants this morning in 30 minutes" }

DateTable == { TextEntry(t) : t \in DateTexts }

Parsed(text) == CHOOSE r \in TextTable : r.text = text

extract_time_from_text(t, base_date, clock) ==
    LET tm == t.time
        result_datetime == Replace(base_date, 12, 0)
    IN  IF tm.kind = "relative" THEN Value(clock + tm.delta)
        ELSE IF tm.kind = "absolute" THEN ReplaceTime(result_datetime, tm.hm)
        ELSE Value(result_datetime)

\* dateparser.parse is an external library: its answer is an input, either
\* NoDate (None) or a datetime.
NoDate == -1

parse_enhanced_date(t, clock, parsed) ==
    LET rule == t.day
        base_date ==
            CASE rule = "tomorrow" -> clock + Day
              [] rule = "today" -> clock
              [] rule = "day after tomorrow" -> clock + 2 * Day
              [] rule = "next week" -> clock + 7 * Day
              [] rule = "next month" -> clock + 30 * Day
              [] OTHER -> IF parsed # NoDate THEN parsed ELSE clock
    IN  extract_time_from_text(t, base_date, clock)

(***************************************************************************)
(* Event ids.  A generated id is f"event_{stamp}_{n}"; an id is written    *)
(* as the triple <<prefix, stamp, n>>.  EmptyId is the empty string (and   *)
(* None): "not event_id" holds of it, and save_event returns it on         *)
(* failure.                                                                *)
(***************************************************************************)
EmptyId == << "", 0, 0 >>
OtherId == << "other", 0, 0 >>
UnknownId == << "nosuch", 0, 0 >>

GeneratedId(clock, n) == << "event", strftime_seconds(clock), n >>

(***************************************************************************)
(* self.events: a Python dict, which keeps insertion order.  It is a       *)
(* sequence of entries [key, ev] with distinct keys.                       *)
(***************************************************************************)
Keys(d) == { d[i].key : i \in DOMAIN d }
Has(d, k) == k \in Keys(d)
IndexOf(d, k) == CHOOSE i \in DOMAIN d : d[i].key = k
Get(d, k) == d[IndexOf(d, k)].ev

\* d[k] = v
DictSet(d, k, v) ==
    IF Has(d, k) THEN [d EXCEPT ![IndexOf(d, k)] = [key |-> k, ev |-> v]]
    ELSE Append(d, [key |-> k, ev |-> v])

\* del d[k]
DictDel(d, k) ==
    LET i == IndexOf(d, k)
    IN  SubSeq(d, 1, i - 1) \o SubSeq(d, i + 1, Len(d))

RECURSIVE Filter(_, _)
\* the entries of d whose key is in keep, in order
Filter(d, keep) ==
    IF Len(d) = 0 THEN << >>
    ELSE IF d[1].key \in keep THEN << d[1] >> \o Filter(Tail(d), keep)
    ELSE Filter(Tail(d), keep)

(***************************************************************************)
(* TemporalEvent and its construction.                                     *)
(***************************************************************************)
\* TemporalEvent(...) as save_event calls it: created_at and last_modified
\* are None, so __post_init__ reads the clock once for each.
TemporalEvent(id, text, event_type, date_time, priority, tags, location, duration_minutes, clock1, clock2) ==
    [ id |-> id, text |-> text, event_type |-> event_type,
      date_time |-> date_time, priority |-> priority, completed |-> FALSE,
      tags |-> tags, location |-> location,
      duration_minutes |-> duration_minutes, recurring_pattern |-> "",
      created_at |-> clock1, last_modified |-> clock2 ]

(***************************************************************************)
(* Persistence.  The file is absent, or holds a complete JSON object, or   *)
(* holds what a write that stopped part-way left: the first entries of     *)
(* the object, unterminated.                                               *)
(***************************************************************************)
NoFile == [kind |-> "absent", data |-> << >>]

\* Mutant: the timestamps are written with isoformat(timespec='seconds').
event_dict_seconds(ev) ==
    [ id |-> ev.id, text |-> ev.text,
      event_type |-> EventTypeValue(ev.event_type),
      date_time |-> isoformat(ev.date_time - (ev.date_time % Second)),
      priority |-> PriorityValue(ev.priority),
      completed |-> ev.completed, tags |-> ev.tags, location |-> ev.location,
      duration_minutes |-> ev.duration_minutes,
      recurring_pattern |-> ev.recurring_pattern,
      created_at |-> isoformat(ev.created_at - (ev.created_at % Second)),
      last_modified |-> isoformat(ev.last_modified - (ev.last_modified % Second)) ]

\* asdict(event) with the datetimes as ISO strings and the enums as values
event_dict(ev) ==
    [ id |-> ev.id, text |-> ev.text,
      event_type |-> EventTypeValue(ev.event_type),
      date_time |-> isoformat(ev.date_time),
      priority |-> PriorityValue(ev.priority),
      completed |-> ev.completed, tags |-> ev.tags, location |-> ev.location,
      duration_minutes |-> ev.duration_minutes,
      recurring_pattern |-> ev.recurring_pattern,
      created_at |-> isoformat(ev.created_at),
      last_modified |-> isoformat(ev.last_modified) ]

\* TemporalEvent(**event_dict) after the conversions of load_from_file
event_from_dict(r) ==
    [ id |-> r.id, text |-> r.text,
      event_type |-> EventTypeOf(r.event_type),
      date_time |-> fromisoformat(r.date_time),
      priority |-> PriorityOf(r.priority),
      completed |-> r.completed, tags |-> r.tags, location |-> r.location,
      duration_minutes |-> r.duration_minutes,
      recurring_pattern |-> r.recurring_pattern,
      created_at |-> fromisoformat(r.created_at),
      last_modified |-> fromisoformat(r.last_modified) ]

json_data(d) == [ i \in DOMAIN d |-> [key |-> d[i].key, rec |-> event_dict(d[i].ev)] ]

\* The outcomes of the write: "ok"; "open_fails" (open raises, the file is
\* untouched); "write_fails" (open has truncated the file and json.dump raises
\* after n entries); "crash" (the process dies after n entries).
\* save_to_file catches every exception, so the caller sees none of them.
IOOutcomes == { "ok", "open_fails", "write_fails", "crash" }

save_to_file(d, f, io, n) ==
    CASE io = "ok" -> [kind |-> "complete", data |-> json_data(d)]
      [] io = "open_fails" -> f
      [] OTHER -> [kind |-> "partial", data |-> SubSeq(json_data(d), 1, n)]

\* an outcome, with the number of entries a failing write has written
IOInputs ==
    { << "ok", 0 >>, << "open_fails", 0 >> } \cup
    { << io, n >> : io \in { "write_fails", "crash" }, n \in 0..MaxEvents }

\* load_from_file into an empty store: nothing when the file is absent or
\* json.load raises (the exception is caught)
load_from_file(f) ==
    IF f.kind = "complete"
    THEN [ i \in DOMAIN f.data |-> [key |-> f.data[i].key, ev |-> event_from_dict(f.data[i].rec)] ]
    ELSE << >>

(***************************************************************************)
(* The operations of TemporalEventMemory on the in-memory dict.  Each      *)
(* gives the dict after the call, whether the call reaches save_to_file,   *)
(* and the value returned.                                                 *)
(***************************************************************************)
Outcome(d, save, ret) == [events |-> d, save |-> save, ret |-> ret]

\* Mutant: the event is put in the dict before its date is parsed.
save_event_stores_first(d, t, event_id, clock, parsed, tags, clock1, clock2) ==
    LET id == IF event_id = EmptyId THEN GeneratedId(clock, Len(d)) ELSE event_id
        event_datetime == parse_enhanced_date(t, clock, parsed)
        event == TemporalEvent(id, t.text, t.event_type,
                               event_datetime.value, t.priority,
                               tags, t.location,
                               t.duration, clock1, clock2)
    IN  IF event_datetime.raised THEN Outcome(DictSet(d, id, event), FALSE, EmptyId)
        ELSE Outcome(DictSet(d, id, event), TRUE, id)

\* save_event(text, event_id), for the text of t: clock is what datetime.now()/today() return
\* while the text is parsed, clock1 and clock2 what the two reads of
\* __post_init__ return.  A ValueError of the parser is caught: "" is returned.
save_event(d, t, event_id, clock, parsed, tags, clock1, clock2) ==
    LET id == IF event_id = EmptyId THEN GeneratedId(clock, Len(d)) ELSE event_id
        event_datetime == parse_enhanced_date(t, clock, parsed)
        event == TemporalEvent(id, t.text, t.event_type,
                               event_datetime.value, t.priority,
                               tags, t.location,
                               t.duration, clock1, clock2)
    IN  IF event_datetime.raised THEN Outcome(d, FALSE, EmptyId)
        ELSE Outcome(DictSet(d, id, event), TRUE, id)

\* Mutant: completing an event that is already completed is refused.
complete_event_once(d, event_id, clock) ==
    IF Has(d, event_id) /\ ~Get(d, event_id).completed
    THEN Outcome(DictSet(d, event_id,
                         [Get(d, event_id) EXCEPT !.completed = TRUE,
                                                  !.last_modified = clock]),
                 TRUE, TRUE)
    ELSE Outcome(d, FALSE, FALSE)

complete_event(d, event_id, clock) ==
    IF Has(d, event_id)
    THEN Outcome(DictSet(d, event_id,
                         [Get(d, event_id) EXCEPT !.completed = TRUE,
                                                  !.last_modified = clock]),
                 TRUE, TRUE)
    ELSE Outcome(d, FALSE, FALSE)

\* Mutant: save_to_file is called whether or not the id was found.
delete_event_always_saves(d, event_id) ==
    IF Has(d, event_id) THEN Outcome(DictDel(d, event_id), TRUE, TRUE)
    ELSE Outcome(d, TRUE, FALSE)

delete_event(d, event_id) ==
    IF Has(d, event_id) THEN Outcome(DictDel(d, event_id), TRUE, TRUE)
    ELSE Outcome(d, FALSE, FALSE)

\* setattr for every key of kwargs that is an attribute of the event
Arg(kwargs, key, old) == IF key \in DOMAIN kwargs THEN kwargs[key] ELSE old

SetAttrs(ev, kwargs) ==
    [ id |-> Arg(kwargs, "id", ev.id),
      text |-> Arg(kwargs, "text", ev.text),
      event_type |-> Arg(kwargs, "event_type", ev.event_type),
      date_time |-> Arg(kwargs, "date_time", ev.date_time),
      priority |-> Arg(kwargs, "priority", ev.priority),
      completed |-> Arg(kwargs, "completed", ev.completed),
      tags |-> Arg(kwargs, "tags", ev.tags),
      location |-> Arg(kwargs, "location", ev.location),
      duration_minutes |-> Arg(kwargs, "duration_minutes", ev.duration_minutes),
      recurring_pattern |-> Arg(kwargs, "recurring_pattern", ev.recurring_pattern),
      created_at |-> Arg(kwargs, "created_at", ev.created_at),
      last_modified |-> Arg(kwargs, "last_modified", ev.last_modified) ]

update_event(d, event_id, kwargs, clock) ==
    IF Has(d, event_id)
    THEN Outcome(DictSet(d, event_id,
                         [SetAttrs(Get(d, event_id), kwargs) EXCEPT !.last_modified = clock]),
                 TRUE, TRUE)
    ELSE Outcome(d, FALSE, FALSE)

\* Mutant: the test of event.completed is missing.
expired_ids_any(d, days_old, clock) ==
    { k \in Keys(d) : Get(d, k).date_time < clock - days_old * Day }

expired_ids(d, days_old, clock) ==
    { k \in Keys(d) : Get(d, k).completed /\ Get(d, k).date_time < clock - days_old * Day }

clear_expired(d, days_old, clock) ==
    LET expired == expired_ids(d, days_old, clock)
    IN  Outcome(Filter(d, Keys(d) \ expired), expired # {}, TRUE)

(***************************************************************************)
(* Queries.  list.sort(key=...) is a stable sort: an element goes after    *)
(* every element already placed whose key is not greater.                  *)
(***************************************************************************)
\* the key (e.date_time, -e.priority.value), and the order of tuples
UpcomingKey(ev) == << ev.date_time, 0 - PriorityValue(ev.priority) >>
KeyLeq(a, b) == a[1] < b[1] \/ (a[1] = b[1] /\ a[2] <= b[2])

InsertByKey(sorted, ev) ==
    LET before == { i \in 1..Len(sorted) : KeyLeq(UpcomingKey(sorted[i]), UpcomingKey(ev)) }
        n == Cardinality(before)
    IN  SubSeq(sorted, 1, n) \o << ev >> \o SubSeq(sorted, n + 1, Len(sorted))

\* the first n elements of s, sorted
RECURSIVE SortPrefix(_, _)
SortPrefix(s, n) == IF n = 0 THEN << >> ELSE InsertByKey(SortPrefix(s, n - 1), s[n])

\* self.events.values()
Values(d) == [ i \in DOMAIN d |-> d[i].ev ]

\* Mutant: the result is left in the order of the dict.
get_upcoming_events_unsorted(d, days_ahead, clock) ==
    LET end_date == clock + days_ahead * Day
        InWindow(ev) == clock <= ev.date_time /\ ev.date_time <= end_date /\ ~ev.completed
    IN  SelectSeq(Values(d), InWindow)

get_upcoming_events(d, days_ahead, clock) ==
    LET end_date == clock + days_ahead * Day
        InWindow(ev) == clock <= ev.date_time /\ ev.date_time <= end_date /\ ~ev.completed
        upcoming == SelectSeq(Values(d), InWindow)
    IN  SortPrefix(upcoming, Len(upcoming))

\* What handle_temporal_commands speaks after temporal_memory.save_event(command)
\* has returned event_id.
SavedPhrase == "I've saved that to your schedule. I'll remember it for you."
TroublePhrase == "I had trouble saving that. Could you try rephrasing it?"
save_reply(event_id) == IF event_id # EmptyId THEN SavedPhrase ELSE TroublePhrase

(***************************************************************************)
(* The command handler (commands.py).  Each handle_xxx(command) below is   *)
(* whether the handler of that name claims the command (returns True).     *)
(***************************************************************************)
handle_face_recognition(command) ==
    ContainsAny(lower(command),
        << "recognize face", "detect face", "who is here", "who is this", "scan face",
           "identify face", "recognize person", "who am i", "do you know me",
           "facial recognition" >>)

handle_place_recognition(command) ==
    ContainsAny(lower(command),
        << "where are we", "where am i", "what place is this", "what place",
           "where is this", "identify location", "recognize place", "what location" >>)

handle_sleep_commands(command) ==
    \/ ContainsAny(command, << "enter sleep mode", "go to sleep", "sleep mode" >>)
    \/ ContainsAny(command, << "exit sleep mode", "wake up", "stop sleeping" >>)

\* the branch of handle_temporal_commands the command takes, or "none"
temporal_action(command) ==
    LET c == lower(command)
    IN  IF ContainsAny(c, << "remind me", "remember", "don't forget", "appointment", "meeting",
                             "going to", "plan to", "schedule", "set a reminder",
                             "add to calendar" >>) THEN "save"
        ELSE IF ContainsAny(c, << "what's my schedule", "what am i doing", "what's planned",
                                  "my events", "what's today", "what's tomorrow", "what's next",
                                  "upcoming events" >>) THEN "query"
        ELSE IF ContainsAny(c, << "mark as done", "completed", "finished", "mark complete",
                                  "done with" >>) THEN "complete"
        ELSE IF /\ ContainsAny(c, << "cancel", "delete", "remove", "forget about" >>)
                /\ ContainsAny(c, << "appointment", "meeting", "event", "reminder", "plan" >>)
             THEN "delete"
        ELSE IF ContainsAny(c, << "overdue", "missed", "what did i miss", "past due" >>)
             THEN "overdue"
        ELSE IF ContainsAny(c, << "event stats", "schedule stats", "how many events" >>)
             THEN "stats"
        ELSE "none"

handle_temporal_commands(command) == temporal_action(command) # "none"

\* the motor function handle_movement_commands calls, "stop" when it only
\* speaks, "none" when it does not claim the command
movement_action(command) ==
    IF Contains(command, "forward") /\ ~Contains(command, "backward") THEN "move_forward"
    ELSE IF Contains(command, "backward") \/ Contains(command, "back up") THEN "move_backward"
    ELSE IF Contains(command, "turn left") \/ Contains(command, "left turn") THEN "turn_left"
    ELSE IF Contains(command, "turn right") \/ Contains(command, "right turn") THEN "turn_right"
    ELSE IF Contains(command, "stop") \/ Contains(command, "halt") THEN "stop"
    ELSE "none"

handle_movement_commands(command) == movement_action(command) # "none"

\* re.search(r'volume (\d+)%', command)
handle_volume_control(command) ==
    \/ Contains(command, "volume up")
    \/ Contains(command, "volume down")
    \/ \E i \in Positions(command) :
         /\ StartsAt(command, i, "volume ")
         /\ DigitRun(command, i + 7) >= 1
         /\ CharAt(command, i + 7 + DigitRun(command, i + 7)) = "%"

\* the keys of built_in_commands
built_in_commands ==
    << "hello", "hi", "hey", "good morning", "good afternoon", "good evening", "good night",
       "goodbye", "bye", "see you later", "what time is it", "what's the time",
       "what date is it", "what day is it", "what's your name", "who are you",
       "what can you do", "how are you", "how old are you", "tell me a joke", "joke",
       "make me laugh", "tell me something funny", "fun fact", "interesting fact", "quote",
       "inspirational quote", "motivational quote", "riddle", "tell me a riddle",
       "thank you", "thanks", "good job", "you're awesome", "i love you", "you're smart",
       "battery", "status", "how are your systems", "are you okay", "power level",
       "weather", "is it raining", "temperature", "do you dream", "do you have feelings",
       "are you happy", "do you get lonely", "what's your favorite color",
       "what's your favorite food", "help", "what commands do you know", "how do i use you",
       "commands", "sleep status", "are you sleeping" >>

handle_built_in_command(command) == ContainsAny(lower(strip(command)), built_in_commands)

(***************************************************************************)
(* State.                                                                  *)
(***************************************************************************)
VARIABLES
    now,        \* the wall clock
    events,     \* temporal_memory.events
    file,       \* the contents of temporal_events.json
    running,    \* whether the process is alive
    last,       \* the last call made on the store and what it returned
    ops,        \* number of calls made so far
    processing_command,  \* state.processing_command
    pc,         \* where the audio processing thread is
    heard,      \* what listen_for_command returned in this command cycle
    said,       \* what has been spoken in this command cycle, in order
    ran,        \* the handlers that have claimed the command of this cycle
    turn,       \* the handler handle_command asks next
    speaking_channel,  \* tenths of a second the channel of tts_module will still be busy
    cut,        \* whether speak has stopped a channel that was busy
    face_pc,    \* where collect_consistent_face_encoding is
    attempts,   \* its local attempts
    encodings,  \* len(encodings)
    captures,   \* calls of capture_shared_frame it has made
    ENA_A,      \* level of the enable pin of the left motors
    ENA_B,      \* level of the enable pin of the right motors
    cmds,       \* the motor commands issued: the function and how many of its pin writes are done
    is_sleeping,    \* sleep_mode.is_sleeping
    alarm_active,   \* sleep_mode.alarm_active
    monitors,       \* where each _alarm_monitor thread started so far is
    alarm_clock,    \* the wall clock against the alarm time: "before", "at", "after"
    announcements,  \* wake-up announcements spoken
    display_mode,   \* state.display_mode, an index of DISPLAY_MODES
    hold_direction, \* state.hold_direction ("none" for None)
    mouse_pressed,  \* whether the left mouse button is down
    key_held,       \* the movement key that is down ("none" when none is)
    sent_in,        \* the display mode in which send_move_command was last called
    motor,      \* the motor function the dispatcher is executing
    result,     \* how the last handler that claimed a command ended
    wakes,      \* wake words uttered so far
    cycles      \* command cycles started so far

store == << now, events, file, running, last, ops >>
speech == << speaking_channel, cut >>
voice == << processing_command, pc, heard, said, ran, turn, motor, result, wakes, cycles, speech >>
face == << face_pc, attempts, encodings, captures >>
pins == << ENA_A, ENA_B, cmds >>
sleep == << is_sleeping, alarm_active, monitors, alarm_clock, announcements >>
ui == << display_mode, hold_direction, mouse_pressed, key_held, sent_in >>
robot == << face, pins, sleep, ui >>
vars == << store, voice, robot >>

\* The audio processing thread starts at the top of its loop, Idle.
VoiceInit ==
    /\ processing_command = FALSE
    /\ pc = "read"
    /\ heard = ""
    /\ said = << >>
    /\ ran = << >>
    /\ turn = 1
    /\ motor = "none"
    /\ result = "none"
    /\ wakes = 0
    /\ cycles = 0
    /\ speaking_channel = 0
    /\ cut = FALSE

DISPLAY_MODES == << "face", "video", "motor" >>
DEFAULT_MODE == 0

\* Nothing else is going on: no face is being collected, the motors are off,
\* the robot is awake, the display shows the face.
RobotInit ==
    /\ face_pc = "idle"
    /\ attempts = 0
    /\ encodings = 0
    /\ captures = 0
    /\ ENA_A = 0
    /\ ENA_B = 0
    /\ cmds = << >>
    /\ is_sleeping = FALSE
    /\ alarm_active = FALSE
    /\ monitors = << >>
    /\ alarm_clock = "before"
    /\ announcements = 0
    /\ display_mode = DEFAULT_MODE
    /\ hold_direction = "none"
    /\ mouse_pressed = FALSE
    /\ key_held = "none"
    /\ sent_in = "none"

\* op: the operation; id: its event_id argument (for save_event, the id it
\* returned); ok: its boolean result (for save_event, whether the id returned
\* is non-empty); days: the argument of clear_expired; wrote: whether the call
\* reached save_to_file; rep: whether the call before it was the same
\* operation on the same id.
Call(op, id, ok, days, wrote) ==
    [ op |-> op, id |-> id, ok |-> ok, days |-> days, wrote |-> wrote,
      rep |-> (last.op = op /\ last.id = id) ]

NoCall(op) == [ op |-> op, id |-> EmptyId, ok |-> FALSE, days |-> 0, wrote |-> FALSE, rep |-> FALSE ]

\* What earlier runs of the process may have left in the file: nothing (no
\* file), or one event saved 50 days ago and completed a day later.
EarlierSaved ==
    save_event(<< >>, Parsed("remind me tomorrow at 3pm to call mom"), EmptyId,
               EarlierTime, NoDate, << >>, EarlierTime, EarlierTime).events

EarlierCompleted ==
    complete_event(EarlierSaved, GeneratedId(EarlierTime, 0), EarlierTime + Day).events

EarlierFiles ==
    { NoFile, save_to_file(EarlierCompleted, NoFile, "ok", 0) }

\* The state after construction: TemporalEventMemory() has loaded the file.
Init ==
    /\ now = StartTime
    /\ file \in EarlierFiles
    /\ events = load_from_file(file)
    /\ running = TRUE
    /\ last = NoCall("init")
    /\ ops = 0
    /\ VoiceInit
    /\ RobotInit

\* The clock of the model ticks MaxTicks times.
CanTick(t) == t - StartTime < MaxTicks
ClockReads(t) == {t} \cup (IF CanTick(t) THEN {t + 1} ELSE {})

\* The common end of every call: the dict is updated, save_to_file runs if
\* the call reaches it, and the call returns unless the process died in the
\* write.
FinishStore(op, id, days, r, io, n) ==
    /\ file' = IF r.save THEN save_to_file(r.events, file, io, n) ELSE file
    /\ IF r.save /\ io = "crash"
       THEN /\ running' = FALSE
            /\ events' = << >>
            /\ last' = NoCall("crash")
       ELSE /\ running' = TRUE
            /\ events' = r.events
            /\ last' = Call(op, id, IF op = "save_event" THEN r.ret # EmptyId ELSE r.ret,
                            days, r.save)
    /\ ops' = ops + 1

Finish(op, id, days, r, io, n) ==
    /\ FinishStore(op, id, days, r, io, n)
    /\ UNCHANGED << voice, robot >>

(***************************************************************************)
(* Inputs.                                                                 *)
(***************************************************************************)
\* save_event(text), as the command handler calls it: no explicit event_id
SaveArgs == { << t, EmptyId >> : t \in TextTable }
IdArgs == Keys(events) \cup { UnknownId }
\* what dateparser.parse answers, when the text reaches it
ParsedDates(t) ==
    IF t.day = "dateparser" THEN { NoDate, now + 3 * Day } ELSE { NoDate }

\* update_event(event_id, **kwargs): "colour" is no attribute of an event.
UpdateKwargs ==
    { [completed |-> TRUE],
      [completed |-> FALSE, colour |-> "red"],
      [text |-> "call dad", date_time |-> StartTime + 7 * Day + 1],
      [id |-> OtherId, priority |-> "URGENT", event_type |-> "TASK"],
      [created_at |-> StartTime + Day, date_time |-> StartTime - 30 * Day + 1] }

\* the calls of update_event: every kwargs on every id of the store, and one
\* call on an id that is not in it
UpdateArgs ==
    { << k, kwargs >> : k \in Keys(events), kwargs \in UpdateKwargs } \cup
    { << UnknownId, [completed |-> TRUE] >> }

RetentionDays == { 30 }

(***************************************************************************)
(* Actions: one per operation.                                             *)
(***************************************************************************)
SaveEvent(t, event_id, parsed, io, n) ==
    /\ running
    /\ ops < MaxOps
    /\ Len(events) < MaxEvents
    /\ \E tags \in Orderings(t.tags), clock2 \in ClockReads(now) :
         LET r == save_event(events, t, event_id, now, parsed, tags, now, clock2)
         IN  /\ n <= Len(r.events)
             /\ now' = clock2
             /\ Finish("save_event", r.ret, 0, r, io, n)

CompleteEvent(event_id, io, n) ==
    /\ running
    /\ ops < MaxOps
    /\ LET r == complete_event(events, event_id, now)
       IN  /\ n <= Len(r.events)
           /\ Finish("complete_event", event_id, 0, r, io, n)
    /\ UNCHANGED now

DeleteEvent(event_id, io, n) ==
    /\ running
    /\ ops < MaxOps
    /\ LET r == delete_event(events, event_id)
       IN  /\ n <= Len(r.events)
           /\ Finish("delete_event", event_id, 0, r, io, n)
    /\ UNCHANGED now

UpdateEvent(event_id, kwargs, io, n) ==
    /\ running
    /\ ops < MaxOps
    /\ LET r == update_event(events, event_id, kwargs, now)
       IN  /\ n <= Len(r.events)
           /\ Finish("update_event", event_id, 0, r, io, n)
    /\ UNCHANGED now

ClearExpired(days_old, io, n) ==
    /\ running
    /\ ops < MaxOps
    /\ LET r == clear_expired(events, days_old, now)
       IN  /\ n <= Len(r.events)
           /\ Finish("clear_expired", EmptyId, days_old, r, io, n)
    /\ UNCHANGED now

\* The process starts (again): TemporalEventMemory() loads the file.
Restart ==
    /\ events' = load_from_file(file)
    /\ running' = TRUE
    /\ last' = NoCall("init")
    /\ UNCHANGED << now, file, ops, voice, robot >>

Tick ==
    /\ CanTick(now)
    /\ now' = now + 1
    /\ UNCHANGED << events, file, running, last, ops, voice, robot >>

\* Every write succeeds.
Next ==
    \/ \E a \in SaveArgs : \E parsed \in ParsedDates(a[1]) :
         SaveEvent(a[1], a[2], parsed, "ok", 0)
    \/ \E event_id \in IdArgs : CompleteEvent(event_id, "ok", 0)
    \/ \E event_id \in IdArgs : DeleteEvent(event_id, "ok", 0)
    \/ \E a \in UpdateArgs : UpdateEvent(a[1], a[2], "ok", 0)
    \/ \E days_old \in RetentionDays : ClearExpired(days_old, "ok", 0)
    \/ Restart
    \/ Tick

Spec == Init /\ [][Next]_vars

\* save_event on the texts that say when, at different times of the clock.
NextDate ==
    \/ \E t \in DateTable : \E parsed \in ParsedDates(t) : SaveEvent(t, EmptyId, parsed, "ok", 0)
    \/ Tick

SpecDate == Init /\ [][NextDate]_vars

\* Writes may fail or the process may die in them.
NextIO ==
    \/ \E a \in SaveArgs, io \in IOInputs :
         \E parsed \in ParsedDates(a[1]) : SaveEvent(a[1], a[2], parsed, io[1], io[2])
    \/ \E event_id \in IdArgs, io \in IOInputs : CompleteEvent(event_id, io[1], io[2])
    \/ \E event_id \in IdArgs, io \in IOInputs : DeleteEvent(event_id, io[1], io[2])
    \/ \E a \in UpdateArgs, io \in IOInputs : UpdateEvent(a[1], a[2], io[1], io[2])
    \/ \E days_old \in RetentionDays, io \in IOInputs : ClearExpired(days_old, io[1], io[2])
    \/ Restart
    \/ Tick

SpecIO == Init /\ [][NextIO]_vars

(***************************************************************************)
(* The voice pipeline: audio_processing_thread, process_command_sequence   *)
(* and handle_command.  pc is "read" at the top of the loop, "listen"      *)
(* after the confirmation, "handle" on entry to handle_command,            *)
(* "dispatch" while it asks the handlers, "in_handler" while the handler   *)
(* that claimed the command is still executing, "delay" once               *)
(* handle_command is over, and "stopped" when the thread has ended.        *)
(***************************************************************************)
\* the handlers in the order handle_command asks them; the last is the AI
\* fallback, which takes every command
\* len(text.split())
WordCount(text) ==
    Cardinality({ i \in 1..Len(text) :
                    ~IsSpace(CharAt(text, i)) /\ (i = 1 \/ IsSpace(CharAt(text, i - 1))) })

\* Times are in tenths of a second.  A text plays for
\* max(1.0, word_count / SPEECH_RATE) seconds, SPEECH_RATE being 2.5 words
\* per second.
SPEECH_RATE == 25
Playback(text) ==
    LET duration == (WordCount(text) * 100) \div SPEECH_RATE
    IN  IF duration < 10 THEN 10 ELSE duration

\* what is left of a playback after t tenths of a second
After(left, t) == IF left > t THEN left - t ELSE 0

\* speak(text) of tts_module, on the channel ch = [left, cut]: a channel that
\* is busy is stopped; after 0.1 s the text starts to play and speak returns
\* 0.1 s later, the playback going on.
speak(ch, text) ==
    [ left |-> Playback(text) - 1, cut |-> (ch.cut \/ ch.left > 0) ]

\* speak called for each text of a sequence in turn
RECURSIVE speak_all(_, _, _)
speak_all(ch, texts, n) ==
    IF n = 0 THEN ch ELSE speak(speak_all(ch, texts, n - 1), texts[n])

Channel == [ left |-> speaking_channel, cut |-> cut ]

\* the handler's texts are spoken one after the other
Says(texts) ==
    LET ch == speak_all(Channel, texts, Len(texts))
    IN  /\ speaking_channel' = ch.left
        /\ cut' = ch.cut

\* t tenths of a second pass
Elapse(t) ==
    /\ speaking_channel' = After(speaking_channel, t)
    /\ UNCHANGED cut

Handlers == << "face", "place", "sleep", "temporal", "movement", "volume", "built_in", "ai" >>

HandlerClaims(h, c) ==
    CASE h = "face" -> handle_face_recognition(c)
      [] h = "place" -> handle_place_recognition(c)
      [] h = "sleep" -> handle_sleep_commands(c)
      [] h = "temporal" -> handle_temporal_commands(c)
      [] h = "movement" -> handle_movement_commands(c)
      [] h = "volume" -> handle_volume_control(c)
      [] h = "built_in" -> handle_built_in_command(c)
      [] OTHER -> TRUE

\* What the recognizer may return: "" stands for None (nothing understood).
Utterances ==
    { "", " ", "where are we", "who is here and where are we",
      "remind me to move forward", "stop sleeping", "turn left", "volume 50%",
      "hello", "tell me about mars" }

\* what the handlers make of each utterance (computed once)
CommandTable ==
    { [ command |-> u,
        blank |-> (strip(u) = ""),
        claimants |-> { h \in Range(Handlers) : HandlerClaims(h, strip(u)) },
        motor |-> movement_action(strip(u)) ] : u \in Utterances }

Row(u) == CHOOSE r \in CommandTable : r.command = u

didnt_understand_responses ==
    { "I'm sorry, I didn't catch that. Could you please repeat?",
      "I didn't understand what you said. Can you try again?",
      "Sorry, I missed that. Could you speak a bit clearer?",
      "I'm having trouble understanding you. Please try again.",
      "Could you repeat that? I didn't quite get it.",
      "I'm sorry, can you say that again more clearly?",
      "I didn't catch what you said. One more time please?" }

ErrorPhrase == "I encountered an error processing that command. Please try again."

\* what the handler h speaks when it has claimed a command
Reply(h) == "(" \o h \o ")"

\* How a handler that has claimed a command may end: it returns, it raises an
\* Exception, or (where it calls recognize_command, whose wait_for_silence
\* raises SystemExit when the window is closed) it exits.  The temporal
\* handler and the AI fallback catch their own exceptions.
Outcomes(h) ==
    CASE h \in {"face", "place"} -> {"returns", "raises", "exit"}
      [] h \in {"temporal", "ai"} -> {"returns"}
      [] OTHER -> {"returns", "raises"}

\* audio_processing_thread hears the wake word and process_command_sequence
\* starts: the flag is set and the confirmation spoken.
WakeWord ==
    /\ pc = "read"
    /\ ~processing_command
    /\ wakes < MaxWakes
    /\ wakes' = wakes + 1
    /\ cycles' = cycles + 1
    /\ processing_command' = TRUE
    /\ said' = << "Yes?" >>
    /\ ran' = << >>
    /\ heard' = ""
    /\ pc' = "listen"
    /\ cut' = (cut \/ speaking_channel > 0)
    /\ speaking_channel' = 0
    /\ UNCHANGED << turn, motor, result, store, robot >>

\* Mutant: a wake word uttered while a command is in flight starts a cycle.
WakeWordQueued ==
    /\ pc # "read"
    /\ wakes < MaxWakes
    /\ wakes' = wakes + 1
    /\ cycles' = cycles + 1
    /\ UNCHANGED << processing_command, pc, heard, said, ran, turn, motor, result, speech, store, robot >>

\* A wake word uttered while the thread is not reading the audio stream: the
\* frames overflow the stream's buffer and are discarded.
WakeWordMissed ==
    /\ pc # "read"
    /\ wakes < MaxWakes
    /\ wakes' = wakes + 1
    /\ UNCHANGED << processing_command, pc, heard, said, ran, turn, motor, result, cycles, speech, store, robot >>

\* command = listen_for_command(); if command: handle_command(command, ...)
Listen(u) ==
    /\ pc = "listen"
    /\ heard' = u
    /\ pc' = IF u # "" THEN "handle" ELSE "delay"
    /\ UNCHANGED << processing_command, said, ran, turn, motor, result, wakes, cycles, speech, store, robot >>

\* handle_command up to its try: a blank command gets a "didn't understand"
\* phrase, any other is stripped and goes to the handlers.
HandleCommand(phrase) ==
    /\ pc = "handle"
    /\ IF Row(heard).blank
       THEN /\ said' = Append(said, phrase)
            /\ Says(<< phrase >>)
            /\ pc' = "delay"
            /\ result' = "none"
       ELSE /\ phrase = CHOOSE q \in didnt_understand_responses : TRUE
            /\ pc' = "dispatch"
            /\ UNCHANGED << said, result, speech >>
    /\ turn' = 1
    /\ UNCHANGED << processing_command, heard, ran, motor, wakes, cycles, store, robot >>

\* Mutant: the return after a handler has claimed the command is missing.
TryHandlerFallsThrough(out) ==
    LET h == Handlers[turn]
    IN  /\ pc = "dispatch"
        /\ out = "returns"
        /\ IF h \in Row(heard).claimants
           THEN /\ ran' = Append(ran, h)
                /\ said' = Append(said, Reply(h))
                /\ Says(<< Reply(h) >>)
                /\ result' = out
                /\ IF turn < Len(Handlers)
                   THEN turn' = turn + 1 /\ pc' = pc
                   ELSE turn' = turn /\ pc' = "delay"
           ELSE /\ turn' = turn + 1
                /\ UNCHANGED << pc, ran, said, result, speech >>
        /\ UNCHANGED << processing_command, heard, motor, wakes, cycles, store, robot >>

\* Mutant: an exception of a handler is not caught in handle_command; it
\* leaves process_command_sequence (whose finally runs) and ends the thread.
TryHandlerNoCatch(out) ==
    LET h == Handlers[turn]
    IN  /\ pc = "dispatch"
        /\ IF h \in Row(heard).claimants
           THEN /\ out \in Outcomes(h)
                /\ ran' = Append(ran, h)
                /\ result' = out
                /\ said' = IF out = "returns" THEN Append(said, Reply(h)) ELSE said
                /\ Says(IF out = "returns" THEN << Reply(h) >> ELSE << >>)
                /\ pc' = IF out = "returns" THEN "delay" ELSE "stopped"
                /\ processing_command' = (out = "returns")
                /\ UNCHANGED << turn, motor >>
           ELSE /\ out = "returns"
                /\ turn' = turn + 1
                /\ UNCHANGED << pc, ran, said, result, motor, processing_command, speech >>
        /\ UNCHANGED << heard, wakes, cycles, store, robot >>

\* One "if self.handle_xxx(command): return" of handle_command.  A handler
\* that does not claim the command returns False and the next is asked.  The
\* one that claims it speaks and acts; the movement handler calls the motor
\* function itself, and is over only when that has returned.  An Exception
\* is caught by handle_command, which speaks ErrorPhrase; SystemExit is not:
\* it ends the thread, after the finally of process_command_sequence.
TryHandler(out) ==
    LET h == Handlers[turn]
        moves == h = "movement" /\ Row(heard).motor # "stop"
        spoken == CASE out = "returns" -> << Reply(h) >>
                    [] out = "raises" -> << ErrorPhrase >>
                    [] OTHER -> << >>
    IN  /\ pc = "dispatch"
        /\ IF h \in Row(heard).claimants
           THEN /\ out \in Outcomes(h)
                /\ ran' = Append(ran, h)
                /\ result' = out
                /\ said' = said \o spoken
                /\ Says(spoken)
                /\ pc' = CASE out = "returns" /\ moves -> "in_handler"
                            [] out = "exit" -> "stopped"
                            [] OTHER -> "delay"
                /\ motor' = IF out = "returns" /\ moves THEN Row(heard).motor ELSE motor
                /\ processing_command' = (out # "exit")
                /\ UNCHANGED turn
           ELSE /\ out = "returns"
                /\ turn' = turn + 1
                /\ UNCHANGED << pc, ran, said, result, motor, processing_command, speech >>
        /\ UNCHANGED << heard, wakes, cycles, store, robot >>

\* how long the motor function sleeps: half a second for a turn, a second
\* for each foot of a move (one foot when the command names no number)
MotorTime(m) == IF m \in {"turn_left", "turn_right"} THEN 5 ELSE 10

\* the motor function returns (its sleep is over and the motors are stopped)
MotorDone ==
    /\ pc = "in_handler"
    /\ motor' = "none"
    /\ pc' = "delay"
    /\ Elapse(MotorTime(motor))
    /\ UNCHANGED << processing_command, heard, said, ran, turn, result, wakes, cycles, store, robot >>

\* time.sleep(0.5) and the finally of process_command_sequence
EndCycle ==
    /\ pc = "delay"
    /\ processing_command' = FALSE
    /\ pc' = "read"
    /\ Elapse(5)
    /\ UNCHANGED << heard, said, ran, turn, motor, result, wakes, cycles, store, robot >>

\* Idle: the thread reads the audio stream until what is playing is over.
PlaybackOver ==
    /\ pc = "read"
    /\ speaking_channel > 0
    /\ speaking_channel' = 0
    /\ UNCHANGED << processing_command, pc, heard, said, ran, turn, motor, result, wakes, cycles, cut, store, robot >>

NextVoice ==
    \/ WakeWord
    \/ WakeWordMissed
    \/ \E u \in Utterances : Listen(u)
    \/ \E phrase \in didnt_understand_responses : HandleCommand(phrase)
    \/ \E out \in {"returns", "raises", "exit"} : TryHandler(out)
    \/ MotorDone
    \/ EndCycle
    \/ PlaybackOver

SpecVoice == Init /\ [][NextVoice]_vars

(***************************************************************************)
(* handle_temporal_commands on the store: the first sub-action whose       *)
(* trigger is in the command runs, and what it does is spoken.             *)
(***************************************************************************)
\* search_events(query): the events whose text, a tag or the location
\* contains the query, in the order of the dict
search_events(d, query) ==
    LET q == lower(query)
    IN  SelectSeq(Values(d),
                  LAMBDA e : \/ Contains(lower(e.text), q)
                             \/ \E j \in DOMAIN e.tags : Contains(lower(e.tags[j]), q)
                             \/ Contains(lower(e.location), q))

\* list.sort(key=lambda e: e.date_time): stable
SortByDate(evs) ==
    LET n == Len(evs)
        rank(i) == 1 + Cardinality({ j \in 1..n : \/ evs[j].date_time < evs[i].date_time
                                                   \/ /\ evs[j].date_time = evs[i].date_time
                                                      /\ j < i })
    IN  [ k \in 1..n |-> evs[CHOOSE i \in 1..n : rank(i) = k] ]

get_overdue_events(d, clock) ==
    SortByDate(SelectSeq(Values(d), LAMBDA e : e.date_time < clock /\ ~e.completed))

get_events_for_date(d, date) ==
    SortByDate(SelectSeq(Values(d), LAMBDA e : DateOf(e.date_time) = date))

\* the events get_event_summary(query) lists ("No events found." when none)
summary_events(d, query, clock) ==
    LET query_lower == lower(query)
    IN  IF Contains(query_lower, "tomorrow") THEN get_events_for_date(d, DateOf(clock) + 1)
        ELSE IF Contains(query_lower, "today") THEN get_events_for_date(d, DateOf(clock))
        ELSE IF Contains(query_lower, "overdue") THEN get_overdue_events(d, clock)
        ELSE search_events(d, query)

\* what the overdue branch speaks: the count, then the first three events
\* (the date of each, formatted '%B %d', is left out of the text)
overdue_texts(overdue) ==
    IF overdue = << >> THEN << "You don't have any overdue events. Good job!" >>
    ELSE << IF Len(overdue) = 1 THEN "You have 1 overdue event."
            ELSE "You have some overdue events." >>
         \o [ k \in 1..(IF Len(overdue) < 3 THEN Len(overdue) ELSE 3) |->
                overdue[k].text \o " was due." ]

TemporalUtterances ==
    { "cancel my meeting",
      "what's my schedule",
      "appointment at 13 pm",
      "remember breakfast is finished today at 9 am",
      "breakfast is finished",
      "remind me to remove event photos",
      "remove event",
      "what's next",
      "what did i miss",
      "how many events" }

TemporalTable ==
    { [ entry |-> TextEntry(u), action |-> temporal_action(u) ] : u \in TemporalUtterances }

\* a sub-action that reads the store and changes nothing
ReadOnly(op, found) ==
    /\ last' = Call(op, EmptyId, found, 0, FALSE)
    /\ ops' = ops + 1
    /\ UNCHANGED << now, events, file, running >>

\* The handler has claimed the command and spoken the texts.  It was entered
\* with the channel free: the "Yes?" of the command cycle has been played out.
Spoken(u, texts) ==
    /\ heard' = u.entry.text
    /\ ran' = << "temporal" >>
    /\ said' = texts
    /\ LET ch == speak_all([ left |-> 0, cut |-> cut ], texts, Len(texts))
       IN  speaking_channel' = ch.left /\ cut' = ch.cut
    /\ UNCHANGED << processing_command, pc, turn, motor, result, wakes, cycles, robot >>

TemporalCommand(u, parsed) ==
    LET command == u.entry.text
        found == search_events(events, command)
        overdue == get_overdue_events(events, now)
    IN  /\ running
        /\ ops < MaxOps
        /\ u.action # "none"
        /\ u.action # "save" => parsed = NoDate
        /\ CASE u.action = "save" ->
                 /\ Len(events) < MaxEvents
                 /\ \E tags \in Orderings(u.entry.tags), clock2 \in ClockReads(now) :
                      LET r == save_event(events, u.entry, EmptyId, now, parsed, tags, now, clock2)
                      IN  /\ now' = clock2
                          /\ FinishStore("save_event", r.ret, 0, r, "ok", 0)
                          /\ Spoken(u, << save_reply(r.ret) >>)
             [] u.action = "query" ->
                 /\ ReadOnly("get_event_summary", summary_events(events, command, now) # << >>)
                 /\ Spoken(u, << IF summary_events(events, command, now) # << >>
                                   THEN "Here's what you have: (summary)"
                                   ELSE IF Contains(lower(command), "today")
                                        THEN "You have nothing scheduled for today."
                                   ELSE IF Contains(lower(command), "tomorrow")
                                        THEN "You have nothing scheduled for tomorrow."
                                   ELSE "You don't have any upcoming events." >>)
             [] u.action = "complete" ->
                 IF found # << >>
                 THEN /\ FinishStore("complete_event", found[1].id, 0,
                                     complete_event(events, found[1].id, now), "ok", 0)
                      /\ UNCHANGED now
                      /\ Spoken(u, << "I've marked that as completed." >>)
                 ELSE /\ ReadOnly("search_events", FALSE)
                      /\ Spoken(u, << "I couldn't find that event to mark as complete." >>)
             [] u.action = "delete" ->
                 IF found # << >>
                 THEN /\ FinishStore("delete_event", found[1].id, 0,
                                     delete_event(events, found[1].id), "ok", 0)
                      /\ UNCHANGED now
                      /\ Spoken(u, << "I've deleted that from your schedule." >>)
                 ELSE /\ ReadOnly("search_events", FALSE)
                      /\ Spoken(u, << "I couldn't find that event to delete." >>)
             [] u.action = "overdue" ->
                 /\ ReadOnly("get_overdue_events", overdue # << >>)
                 /\ Spoken(u, overdue_texts(overdue))
             [] OTHER ->
                 /\ ReadOnly("get_stats", TRUE)
                 /\ Spoken(u, << "You have some events." >>)

NextTemporal ==
    \/ \E u \in TemporalTable : \E parsed \in ParsedDates(u.entry) : TemporalCommand(u, parsed)
    \/ Tick

SpecTemporal == Init /\ [][NextTemporal]_vars

(***************************************************************************)
(* collect_consistent_face_encoding(sample_count=3, delay=0.2): the loop   *)
(* that collects face encodings from camera frames.                        *)
(***************************************************************************)
sample_count == 3
max_attempts == 10

\* what one pass of the loop may meet: capture_shared_frame returns None, a
\* frame with a face, a frame without one, or something in the pass raises
Frames == { "none", "face", "no_face", "raises" }

\* handle_face_recognition calls collect_consistent_face_encoding
CollectStart ==
    /\ face_pc \in { "idle", "done" }
    /\ face_pc' = "loop"
    /\ attempts' = 0
    /\ encodings' = 0
    /\ captures' = 0
    /\ UNCHANGED << store, voice, pins, sleep, ui >>

\* One pass of the while loop.  "if frame is None: continue" goes back to the
\* loop test without counting the attempt and without sleeping.
CollectPass(frame) ==
    /\ face_pc = "loop"
    /\ encodings < sample_count /\ attempts < max_attempts
    /\ captures < MaxCaptures
    /\ captures' = captures + 1
    /\ encodings' = IF frame = "face" THEN encodings + 1 ELSE encodings
    /\ attempts' = IF frame = "none" THEN attempts ELSE attempts + 1
    /\ UNCHANGED << face_pc, store, voice, pins, sleep, ui >>

\* the loop test fails: the function returns None or the averaged encoding
CollectReturn ==
    /\ face_pc = "loop"
    /\ ~(encodings < sample_count /\ attempts < max_attempts)
    /\ face_pc' = "done"
    /\ UNCHANGED << attempts, encodings, captures, store, voice, pins, sleep, ui >>

NextFace ==
    \/ CollectStart
    \/ \E frame \in Frames : CollectPass(frame)
    \/ CollectReturn

SpecFace == Init /\ [][NextFace]_vars

(***************************************************************************)
(* motor_control: the motor functions as the writes they make on the two   *)
(* enable pins, run by any number of threads at once.                      *)
(***************************************************************************)
MotorFunctions == { "move_forward", "move_backward", "turn_left", "turn_right" }

stop_motors == << << "ENA_A", 0 >>, << "ENA_B", 0 >> >>

\* Mutant: move_forward and move_backward return without stopping the motors.
WritesNoStop(fn) ==
    CASE fn = "turn_left" -> << << "ENA_B", 0 >>, << "ENA_A", 1 >> >> \o stop_motors
      [] fn = "turn_right" -> << << "ENA_A", 0 >>, << "ENA_B", 1 >> >> \o stop_motors
      [] OTHER -> << << "ENA_A", 1 >>, << "ENA_B", 1 >> >>

\* the gpio_write calls on ENA_A and ENA_B a motor function makes, in order;
\* it sleeps before stop_motors
Writes(fn) ==
    CASE fn = "turn_left" -> << << "ENA_B", 0 >>, << "ENA_A", 1 >> >> \o stop_motors
      [] fn = "turn_right" -> << << "ENA_A", 0 >>, << "ENA_B", 1 >> >> \o stop_motors
      [] OTHER -> << << "ENA_A", 1 >>, << "ENA_B", 1 >> >> \o stop_motors

InProgress(c) == c.done < Len(Writes(c.fn))

\* a motor function is called: by a thread of send_move_command or by
\* handle_movement_commands
MotorCall(fn) ==
    /\ Len(cmds) < MaxCommands
    /\ cmds' = Append(cmds, [ fn |-> fn, done |-> 0 ])
    /\ UNCHANGED << ENA_A, ENA_B, store, voice, face, sleep, ui >>

\* the next gpio_write of command i
GpioWrite(i) ==
    /\ InProgress(cmds[i])
    /\ LET w == Writes(cmds[i].fn)[cmds[i].done + 1]
       IN  /\ ENA_A' = IF w[1] = "ENA_A" THEN w[2] ELSE ENA_A
           /\ ENA_B' = IF w[1] = "ENA_B" THEN w[2] ELSE ENA_B
    /\ cmds' = [ cmds EXCEPT ![i].done = @ + 1 ]
    /\ UNCHANGED << store, voice, face, sleep, ui >>

NextMotor ==
    \/ \E fn \in MotorFunctions : MotorCall(fn)
    \/ \E i \in DOMAIN cmds : GpioWrite(i)

SpecMotor == Init /\ [][NextMotor]_vars

(***************************************************************************)
(* sleep_mode: enter and exit, and the _alarm_monitor threads.  A thread   *)
(* is at "test" (the while test), "check" (the if in the loop), "trigger"  *)
(* (the test of the if has passed), "sleep" (time.sleep(60)) or "done".    *)
(***************************************************************************)
WakeUpPhrase == "Time to wake up, good morning!"

\* exit_sleep_mode()
exit_sleep_mode ==
    IF is_sleeping
    THEN is_sleeping' = FALSE /\ alarm_active' = FALSE
    ELSE UNCHANGED << is_sleeping, alarm_active >>

\* enter_sleep_mode(): a new monitor thread is started unless the robot
\* sleeps already
EnterSleepMode ==
    /\ Len(monitors) < MaxMonitors
    /\ IF is_sleeping
       THEN UNCHANGED << is_sleeping, alarm_active, monitors >>
       ELSE /\ is_sleeping' = TRUE
            /\ alarm_active' = TRUE
            /\ monitors' = Append(monitors, "test")
    /\ UNCHANGED << alarm_clock, announcements, store, voice, face, pins, ui >>

ExitSleepMode ==
    /\ exit_sleep_mode
    /\ UNCHANGED << monitors, alarm_clock, announcements, store, voice, face, pins, ui >>

\* one step of monitor thread i
MonitorStep(i) ==
    /\ CASE monitors[i] = "test" ->
              /\ monitors' = [ monitors EXCEPT ![i] = IF alarm_active THEN "check" ELSE "done" ]
              /\ UNCHANGED << is_sleeping, alarm_active, announcements >>
         [] monitors[i] = "check" ->
              /\ monitors' = [ monitors EXCEPT ![i] = IF alarm_clock = "at" /\ is_sleeping
                                                     THEN "trigger" ELSE "sleep" ]
              /\ UNCHANGED << is_sleeping, alarm_active, announcements >>
         [] monitors[i] = "trigger" ->
              \* _trigger_alarm: exit_sleep_mode(), speak(WakeUpPhrase); break
              /\ exit_sleep_mode
              /\ announcements' = announcements + 1
              /\ monitors' = [ monitors EXCEPT ![i] = "done" ]
         [] monitors[i] = "sleep" ->
              /\ monitors' = [ monitors EXCEPT ![i] = "test" ]
              /\ UNCHANGED << is_sleeping, alarm_active, announcements >>
         [] OTHER -> FALSE
    /\ UNCHANGED << alarm_clock, store, voice, face, pins, ui >>

\* the wall clock reaches the alarm time, and a minute later leaves it
ClockMoves ==
    /\ alarm_clock # "after"
    /\ alarm_clock' = IF alarm_clock = "before" THEN "at" ELSE "after"
    /\ UNCHANGED << is_sleeping, alarm_active, monitors, announcements, store, voice, face, pins, ui >>

NextSleep ==
    \/ EnterSleepMode
    \/ ExitSleepMode
    \/ \E i \in DOMAIN monitors : MonitorStep(i)
    \/ ClockMoves

SpecSleep == Init /\ [][NextSleep]_vars

(***************************************************************************)
(* The window's event handlers and process_hold_controls, which the main   *)
(* loop calls once per frame after the events.                             *)
(***************************************************************************)
Directions == { "forward", "backward", "left", "right" }

Mode == DISPLAY_MODES[display_mode + 1]
NextMode == (display_mode + 1) % Len(DISPLAY_MODES)

\* where a mouse button goes down: on the mode button, on the motion control
\* of a direction, or elsewhere
Places == { "mode_button", "elsewhere" } \cup Directions

\* MOUSEBUTTONDOWN at a place: handle_mouse_events (handle_keyboard_events
\* returns at once for a mouse event)
MouseDown(place) ==
    /\ ~mouse_pressed
    /\ mouse_pressed' = TRUE
    /\ IF place = "mode_button"
       THEN /\ display_mode' = NextMode
            /\ UNCHANGED << hold_direction, sent_in >>
       ELSE IF Mode = "motor" /\ place \in Directions
       THEN /\ hold_direction' = place
            /\ sent_in' = Mode
            /\ UNCHANGED display_mode
       ELSE UNCHANGED << display_mode, hold_direction, sent_in >>
    /\ UNCHANGED << key_held, store, voice, face, pins, sleep >>

\* MOUSEBUTTONUP
MouseUp ==
    /\ mouse_pressed
    /\ mouse_pressed' = FALSE
    /\ hold_direction' = IF Mode = "motor" THEN "none" ELSE hold_direction
    /\ UNCHANGED << display_mode, key_held, sent_in, store, voice, face, pins, sleep >>

\* KEYDOWN of the M key or of a movement key: handle_keyboard_events
KeyDown(key) ==
    /\ key = "m" \/ key_held = "none"
    /\ display_mode' = IF key = "m" THEN NextMode ELSE display_mode
    /\ key_held' = IF key = "m" THEN key_held ELSE key
    /\ sent_in' = IF DISPLAY_MODES[display_mode' + 1] = "motor" /\ key \in Directions
                  THEN "motor" ELSE sent_in
    /\ UNCHANGED << hold_direction, mouse_pressed, store, voice, face, pins, sleep >>

\* KEYUP of the movement key that is down
KeyUp ==
    /\ key_held # "none"
    /\ key_held' = "none"
    /\ UNCHANGED << display_mode, hold_direction, mouse_pressed, sent_in, store, voice, face, pins, sleep >>

\* process_hold_controls(); due: whether move_throttle has passed since the
\* last command of the direction
ProcessHoldControls(due) ==
    LET by_mouse == hold_direction # "none" /\ mouse_pressed /\ due
        by_key == Mode = "motor" /\ key_held # "none" /\ due
    IN  /\ hold_direction' = IF hold_direction # "none" /\ ~mouse_pressed
                             THEN "none" ELSE hold_direction
        /\ sent_in' = IF by_mouse \/ by_key THEN Mode ELSE sent_in
        /\ UNCHANGED << display_mode, mouse_pressed, key_held, store, voice, face, pins, sleep >>

NextUI ==
    \/ \E place \in Places : MouseDown(place)
    \/ MouseUp
    \/ \E key \in { "m" } \cup Directions : KeyDown(key)
    \/ KeyUp
    \/ \E due \in BOOLEAN : ProcessHoldControls(due)

SpecUI == Init /\ [][NextUI]_vars

(***************************************************************************)
(* Properties.                                                             *)
(***************************************************************************)
\* a step that is a call of one of the operations in S
CallOf(S) == ops' = ops + 1 /\ last'.op \in S

\* C1: when every write succeeds, loading a fresh store from the file gives
\* exactly the in-memory store: the same ids in the same order and, for
\* every event, the same value of every field.
C1_RoundTrip == load_from_file(file) = events

\* a store of two events that an update_event has just rewritten to the file
C1_Witness ==
    /\ last.op = "update_event" /\ last.wrote
    /\ Len(events) = 2
    /\ file.kind = "complete" /\ Len(file.data) = 2

\* C2: every successful save_event returns an id that was not a key of the
\* store before the call, and adds exactly one event.
C2_UniqueIds ==
    [][ (CallOf({"save_event"}) /\ last'.ok)
          => (~Has(events, last'.id) /\ Len(events') = Len(events) + 1) ]_vars

\* C3: the file is replaced atomically: it never holds an empty or partially
\* written store.
C3_FileNeverPartial == file.kind # "partial"

\* C4: the completed flag of an event changes only from false to true, and
\* only in a complete_event call on that event.
C4_CompletedOnlyByComplete ==
    [][ \A k \in Keys(events) \cap Keys(events') :
          Get(events', k).completed # Get(events, k).completed
            => /\ CallOf({"complete_event"}) /\ last'.id = k
               /\ ~Get(events, k).completed ]_vars

\* C5: update_event, complete_event and reloading leave the id (equal to the
\* store key), the text and created_at of every stored event as they were.
C5_Immutable ==
    [][ (CallOf({"update_event", "complete_event"}) \/ ops' = ops)
          => \A k \in Keys(events) \cap Keys(events') :
               /\ Get(events', k).id = k
               /\ Get(events', k).text = Get(events, k).text
               /\ Get(events', k).created_at = Get(events, k).created_at ]_vars

\* C6: every stored event has last_modified >= created_at.
C6_ModifiedAfterCreated ==
    \A i \in DOMAIN events : events[i].ev.last_modified >= events[i].ev.created_at

\* C7: right after a successful save_event, the event fetched by the id
\* returned is not completed and has last_modified = created_at.
C7_FreshEvent ==
    (last.op = "save_event" /\ last.ok)
      => /\ Has(events, last.id)
         /\ ~Get(events, last.id).completed
         /\ Get(events, last.id).last_modified = Get(events, last.id).created_at

\* C8: complete_event on an id of the store returns true and leaves the event
\* completed, also when the call before it was the same complete_event.
C8_CompleteIdempotent ==
    (last.op = "complete_event" /\ Has(events, last.id))
      => (last.ok /\ Get(events, last.id).completed)

\* complete_event(id) has been called twice in a row on an id of the store
C8_Witness ==
    /\ last.op = "complete_event" /\ last.rep
    /\ Has(events, last.id)
    /\ last.ok /\ Get(events, last.id).completed

\* C9: delete_event, complete_event and update_event on an id that is not in
\* the store return false, leave the store as it is and do not write the file.
C9_UnknownIdNoEffect ==
    [][ (CallOf({"delete_event", "complete_event", "update_event"})
           /\ ~Has(events, last'.id))
          => (~last'.ok /\ events' = events /\ file' = file /\ ~last'.wrote) ]_vars

\* delete_event has just been called on an id that a non-empty store lacks
C9_Witness ==
    /\ last.op = "delete_event" /\ ~Has(events, last.id)
    /\ ~last.ok /\ ~last.wrote
    /\ Len(events) >= 1

\* C10: clear_expired(days_old) removes exactly the events that are
\* completed and whose date_time is earlier than now - days_old days; every
\* other event stays, unmodified.
Expired(ev, days_old, clock) == ev.completed /\ ev.date_time < clock - days_old * Day

C10_ClearExpiredExact ==
    [][ CallOf({"clear_expired"})
          => /\ Keys(events') \subseteq Keys(events)
             /\ \A k \in Keys(events) :
                  IF Expired(Get(events, k), last'.days, now)
                  THEN ~Has(events', k)
                  ELSE Has(events', k) /\ Get(events', k) = Get(events, k) ]_vars

\* clear_expired has just removed an event and kept another
C10_Witness ==
    /\ last.op = "clear_expired" /\ last.wrote
    /\ Len(events) >= 1

\* C11: get_upcoming_events(7) returns exactly the events of the store that
\* are not completed and have now <= date_time <= now + 7 days, each once, in
\* ascending order of date_time, events of equal date_time in descending
\* order of priority.
C11_UpcomingExact ==
    LET r == get_upcoming_events(events, 7, now)
        wanted == { i \in DOMAIN events :
                      /\ ~events[i].ev.completed
                      /\ now <= events[i].ev.date_time
                      /\ events[i].ev.date_time <= now + 7 * Day }
    IN  /\ Len(r) = Cardinality(wanted)
        /\ \A i \in wanted : \E j \in DOMAIN r : r[j] = events[i].ev
        /\ \A i, j \in DOMAIN r :
             i < j => \/ r[i].date_time < r[j].date_time
                      \/ /\ r[i].date_time = r[j].date_time
                         /\ PriorityValue(r[i].priority) >= PriorityValue(r[j].priority)

\* two upcoming events of equal date_time, the later in the dict of higher
\* priority: the query returns them in the other order
C11_Witness ==
    /\ Len(events) = 2
    /\ events[1].ev.date_time = events[2].ev.date_time
    /\ PriorityValue(events[1].ev.priority) < PriorityValue(events[2].ev.priority)
    /\ get_upcoming_events(events, 7, now) = << events[2].ev, events[1].ev >>

\* C12: when the write of the storage file fails during save_event (the file
\* is left partly written), save_event returns the empty id and the temporal
\* handler speaks its apology.
C12_WriteFailureReported ==
    (last.op = "save_event" /\ last.wrote /\ file.kind = "partial")
      => (last.id = EmptyId /\ save_reply(last.id) = TroublePhrase)

\* C13: when every write succeeds, save_event stores an event and returns a
\* non-empty id for every text, a text with an out-of-range clock time
\* included.
C13_FailsOnlyOnIOError ==
    (last.op = "save_event") => (last.ok /\ Has(events, last.id))

\* C19: the event stored for "remind me tomorrow at 3pm to call mom" has
\* date_time = 15:00 on the day after the call, event_type Reminder and an
\* empty location.
C19_RemindTomorrow ==
    (last.op = "save_event" /\ last.ok /\ Has(events, last.id)
       /\ Get(events, last.id).text = "remind me tomorrow at 3pm to call mom")
      => LET ev == Get(events, last.id)
         IN  /\ ev.date_time = Replace(ev.created_at + Day, 15, 0)
             /\ ev.event_type = "REMINDER"
             /\ ev.location = ""

\* C20: the event stored for "meeting at the office in 30 minutes" has
\* date_time = the time of the call + 30 minutes, event_type Appointment and
\* location "the office".
C20_MeetingAtTheOffice ==
    (last.op = "save_event" /\ last.ok /\ Has(events, last.id)
       /\ Get(events, last.id).text = "meeting at the office in 30 minutes")
      => LET ev == Get(events, last.id)
         IN  /\ ev.date_time = ev.created_at + 30 * Minute
             /\ ev.event_type = "APPOINTMENT"
             /\ ev.location = "the office"

\* C14: handle_command asks the domains in the order face, place, sleep,
\* temporal, movement, volume, built-in, AI; exactly the first whose trigger
\* matches the utterance handles it and nothing later runs or speaks; and
\* "where are we" is handled by place recognition.
C14_FirstClaimantHandles ==
    LET order == << "face", "place", "sleep", "temporal", "movement", "volume", "built_in", "ai" >>
        first == Min({ k \in 1..Len(order) : order[k] \in Row(heard).claimants })
    IN  /\ Len(ran) <= 1
        /\ Len(said) <= 2
        /\ ran # << >> => ran[1] = order[first]
        /\ (pc \in {"delay", "in_handler"} /\ heard # "" /\ ~Row(heard).blank) => Len(ran) = 1
        /\ (heard = "where are we" /\ ran # << >>) => ran = << "place" >>

\* an utterance with triggers of two domains has been handled by the first
C14_Witness ==
    /\ pc = "delay"
    /\ heard = "who is here and where are we"
    /\ {"face", "place"} \subseteq Row(heard).claimants
    /\ ran = << "face" >>

\* C15: when the listener returns no text, a "didn't understand" phrase has
\* been spoken by the time the command cycle is over.
C15_NoTextGetsPhrase ==
    (pc = "delay" /\ heard = "") => \E i \in DOMAIN said : said[i] \in didnt_understand_responses

C17_OneCommandAtATime ==
    [][ /\ (cycles' # cycles)
             => (~processing_command /\ cycles' = cycles + 1 /\ wakes' = wakes + 1)
        /\ (processing_command /\ wakes' # wakes) => cycles' = cycles
        /\ (pc' \in {"handle", "dispatch", "in_handler"}) => processing_command' ]_vars

\* a wake word was dropped while a command was in flight, and the thread is
\* back at the top of its loop with no cycle started for it
C17_Witness ==
    /\ cycles = 1
    /\ wakes = 2
    /\ pc = "read"
    /\ ~processing_command
    /\ ran # << >>

\* C18: a motor action started by a voice command does not hold the
\* dispatcher: while it runs, handle_command is not waiting in the handler.
C18_FireAndForget == motor # "none" => pc # "in_handler"

\* C23: a text with "day after tomorrow" is dated two days after the day it
\* is saved, one with plain "tomorrow" one day after.
C23_DayAfterTomorrow ==
    \A i \in DOMAIN events :
        LET e == events[i].ev
        IN  /\ e.text = "call mom day after tomorrow"
                 => DateOf(e.date_time) = DateOf(e.created_at) + 2
            /\ e.text = "call mom tomorrow"
                 => DateOf(e.date_time) = DateOf(e.created_at) + 1

\* C24: the time of day comes from the first pattern that matches, in the
\* order HH:MM, "at H am|pm", day-part word, "in N minutes/hours/days"; 12:00
\* when none matches; the offset counts from now and replaces the whole
\* timestamp.
C24_FirstTimePattern ==
    \A i \in DOMAIN events :
        LET e == events[i].ev
            today == DateOf(e.created_at) * Day
        IN  /\ e.text = "lunch today at 12:30 in 2 hours"
                 => e.date_time = today + 12 * Hour + 30 * Minute
            /\ e.text = "gym today at 7 pm in the evening"
                 => e.date_time = today + 19 * Hour
            /\ e.text = "read today in the evening"
                 => e.date_time = today + 18 * Hour
            /\ e.text = "water the plants this morning in 30 minutes"
                 => e.date_time = today + 9 * Hour
            /\ e.text = "walk today in 2 hours"
                 => e.date_time = e.created_at + 2 * Hour
            /\ e.text = "dinner next week"
                 => e.date_time = today + 7 * Day + 12 * Hour

\* C27: a call of save_event that returns the empty id leaves the dict and
\* the storage file as they were.
C27_FailedSaveNoChange ==
    [][ (ops' = ops + 1 /\ last'.op = "save_event" /\ ~last'.ok)
          => (events' = events /\ file' = file) ]_vars

\* save_event has returned the empty id with an event in the store
C27_Witness ==
    /\ last.op = "save_event"
    /\ ~last.ok
    /\ last.id = EmptyId
    /\ Len(events) >= 1

\* C21: while a response is still being played the dispatcher is not Idle:
\* processing_command stays true until the playback is over.
C21_BusyUntilPlayed == speaking_channel > 0 => processing_command

\* C22: a playback that has started is never stopped: speak never finds the
\* channel busy.
C22_NeverCut == ~cut

\* C25: handle_temporal_commands runs one sub-action per utterance, and an
\* utterance with a save trigger is stored as a new event: save_event is the
\* sub-action, one event is added, no event is removed or changed.
C25_SaveTriggerStores ==
    [][ (ops' = ops + 1)
          => /\ ran' = << "temporal" >>
             /\ (heard' \in { "cancel my meeting", "what's my schedule", "appointment at 13 pm",
                              "remember breakfast is finished today at 9 am",
                              "remind me to remove event photos" })
                  => /\ last'.op = "save_event"
                     /\ Len(events') = Len(events) + 1
                     /\ \A i \in DOMAIN events : events'[i] = events[i] ]_vars

\* C26: collect_consistent_face_encoding makes at most max_attempts capture
\* attempts, whatever the camera returns, before it returns.
C26_BoundedCaptures == captures <= max_attempts

\* C28: in every interleaving of motor commands an enable pin is high only
\* while some command is in progress: when every command issued has
\* finished, ENA_A and ENA_B are low.
C28_PinsLowWhenIdle ==
    (ENA_A = 1 \/ ENA_B = 1) => \E i \in DOMAIN cmds : InProgress(cmds[i])

\* a turn started while a move was inside stop_motors
C28_Witness ==
    /\ Len(cmds) = 2
    /\ cmds[1] = [ fn |-> "move_forward", done |-> 3 ]
    /\ cmds[2] = [ fn |-> "turn_right", done |-> 2 ]
    /\ ENA_A = 0
    /\ ENA_B = 1

\* C29: at most one alarm monitor thread is active at a time, and the alarm
\* time brings at most one wake-up announcement.
C29_OneMonitorOneAnnouncement ==
    /\ Cardinality({ i \in DOMAIN monitors : monitors[i] # "done" }) <= 1
    /\ announcements <= 1

\* C30: send_move_command is called only while the display mode is
\* "motor", never in "face" or "video".
C30_MoveOnlyInMotorMode == sent_in \notin { "face", "video" }

====
